---- MODULE Spec2Model ----
(***************************************************************************)
(* Obsidian Git Sync: the plugin (main.ts), the sync engine GitManager     *)
(* (gitManager.ts, isomorphic-git build and simple-git build) and the      *)
(* auto-sync timer, as a state machine.  One sync call is a sequence of    *)
(* atomic segments, each running from the resolution of one awaited        *)
(* promise to the next await.  Network responses, user edits of the vault  *)
(* and pushes by other clients are environment actions.                    *)
(***************************************************************************)
EXTENDS Integers, Sequences, FiniteSets, TLC

\* ---------------------------------------------------------------- bounds
MaxCalls == 2           \* sync calls started in one behaviour
MaxEdits == 1           \* user edits of the working directory
MaxRemote == 1          \* commits pushed to the remote by other clients
MaxContent == 2         \* distinct file contents (0 is "no file")
MaxSettings == 1        \* changes of the auto-sync interval setting
MaxInterval == 2        \* largest auto-sync interval the user enters (minutes)
MaxTemplate == 2        \* pieces of a commit message template
MaxUrl == 3             \* pieces of a URL after its host
MaxHistory == 4         \* commits of a history getStatus is asked about

PathSeq == <<"a.md", "b.md">>      \* statusMatrix lists paths in this order
Paths == {PathSeq[i] : i \in 1..Len(PathSeq)}
Calls == 1..MaxCalls
Contents == 0..MaxContent
Origins == {"ribbon", "button", "timer"}

VARIABLES
    variant,        \* which GitManager build is linked: "isomorphic" | "simple"
    settings,       \* GitSyncPlugin.settings: [autoCommitMessage, authorName,
                    \*   authorEmail, username, password, repoUrl]
    statusBarItem,  \* GitSyncPlugin.statusBarItem: "set" | "null"
    \* --- network
    wire,           \* the last HTTP request or git command sent: [from, op, via,
                    \*   upstream, url, headers, handled]
    proxyOut,       \* what the proxy did with the last request it handled:
                    \*   [received, status, forwarded, target, path, headers, body]
    proxyLog,       \* the lines the proxy logged for that request
    engineLog,      \* the lines the engine logged for that request
    \* --- getStatus
    currentBranch,  \* the branch HEAD points to ("" when HEAD is detached)
    originRef,      \* refs/remotes/origin/<branch>: the commit it names (0 when
                    \*   the reference does not exist)
    gitStatus,      \* what the last getStatus call settled with: [called, ok,
                    \*   branch, ahead, behind]
    \* --- repository (working directory + .git) and remote
    isRepo,         \* a repository root is discoverable at dir
    commits,        \* sequence of commit objects [tree, parent]; id = position
    localHead,      \* local branch tip (0: none)
    remoteHead,     \* branch tip on the remote
    index,          \* staging area: path -> content
    work,           \* working directory: path -> content
    unmerged,       \* paths the index holds as unmerged (conflict) entries
    mergeHead,      \* MERGE_HEAD: the commit a merge in progress merges (0: none)
    gitConfig,      \* the repository's git config: user.name / user.email
                    \*   ([set, name, email], set is FALSE when it holds none),
                    \*   the URL of remote origin and the branch checked out
                    \*   ([remoteUrl, branch], "" before the clone)
    \* --- plugin
    gitManager,     \* GitSyncPlugin.gitManager: "null" | "created"
    credentials,    \* GitManager.credentials, copied from the settings when the
                    \*   GitManager is created ("null" before)
    statusBar,      \* text of the status bar item
    autoSyncInterval, \* settings.autoSyncInterval (minutes)
    intervalId,     \* GitSyncPlugin.intervalId (0 is null)
    timers,         \* active window intervals: set of [id, ms]
    nextTimer,      \* next id window.setInterval hands out
    savesPending,   \* saveSettings calls awaiting saveData
    unloaded,       \* onunload has run
    \* --- sync calls
    pc,             \* call -> the operation the call is awaiting
    origin,         \* call -> entry point that started it
    commitMessage,  \* call -> the commit message syncVault passes to sync
    startSettings,  \* call -> the settings when the call started (sync is handed
                    \*   settings.repoUrl and settings.branchName of that moment)
    steps,          \* call -> sequence of pipeline steps started
    failedAt,       \* call -> step that threw ("none" if none)
    error,          \* call -> the error the call rejected with ("none" if none)
    outcome,        \* call -> "none" | "Success" | "NoChanges" | "Failed"
    changedFiles,   \* call -> result of getChangedFiles in sync
    toAdd,          \* call -> files addAll still has to git.add
    added,          \* call -> paths this call added to the index
    madeCommit,     \* call -> id of the commit this call created (0: none)
    \* --- history
    nCalls, nEdits, nRemote, nSettings,
    othersAtStart,  \* call -> calls in flight when the call started
    pulled,         \* call -> the remote commit its pull merged (0: none yet)
    cleanRun,       \* call -> since its pull resolved it ran alone and neither the
                    \*         working directory nor the remote changed
    prev,           \* how the last call ended if its run was clean and nothing
                    \* changed since: "ok" | "failed" | "pushFailed", else "none"
    follows,        \* call -> prev when the call started with no call in flight,
                    \*         "none" once it is disturbed while in flight
    lastEnded       \* how the call that ended last ended: "none" | "ok" | "failed"

mergeVars == <<unmerged, mergeHead>>
repoVars == <<isRepo, gitConfig, commits, localHead, remoteHead, index, work,
              mergeVars>>
pluginVars == <<gitManager, credentials, autoSyncInterval, intervalId, timers, nextTimer,
                savesPending, unloaded>>
callVars == <<pc, origin, commitMessage, startSettings, steps, failedAt, error, outcome, changedFiles, toAdd, added,
              madeCommit>>
histVars == <<nCalls, nEdits, nRemote, nSettings, othersAtStart, pulled,
              cleanRun, prev, follows, lastEnded>>
netVars == <<wire, proxyOut, proxyLog, engineLog>>
statusVars == <<currentBranch, originRef, gitStatus>>
fixedVars == <<variant, settings, statusBarItem, netVars, statusVars>>
vars == <<fixedVars, repoVars, pluginVars, statusBar, callVars, histVars>>

\* ------------------------------------------------- git library, abstractly
\* content of a file git left with conflict markers
Conflicted == MaxContent + 1

NoTree == [p \in Paths |-> 0]

TreeOf(h) == IF h = 0 THEN NoTree ELSE commits[h].tree

RECURSIVE IsAncestor(_, _)
\* a is reachable from b along parent links (every commit is its own ancestor)
IsAncestor(a, b) ==
    IF a = b THEN TRUE
    ELSE IF b = 0 THEN FALSE
    ELSE IsAncestor(a, commits[b].parent)
         \/ (commits[b].parent2 # 0 /\ IsAncestor(a, commits[b].parent2))

\* git.statusMatrix: one row <<path, HEAD, WORKDIR, STAGE>> per path known to
\* HEAD, the working directory or the index
StatusRow(p) ==
    LET h == TreeOf(localHead)[p]
        w == work[p]
        s == index[p]
        H == IF h = 0 THEN 0 ELSE 1
        W == IF w = 0 THEN 0 ELSE IF w = h THEN 1 ELSE 2
        S == IF s = 0 THEN 0 ELSE IF s = h THEN 1 ELSE IF s = w THEN 2 ELSE 3
    IN  <<p, H, W, S>>

StatusMatrix ==
    {StatusRow(p) : p \in {q \in Paths :
        TreeOf(localHead)[q] # 0 \/ work[q] # 0 \/ index[q] # 0}}

\* mutant: the filter for changed rows is forgotten
GetChangedFilesUnfiltered == {row[1] : row \in StatusMatrix}

\* GitManager.getChangedFiles (isomorphic-git build)
GetChangedFiles ==
    {row[1] : row \in {r \in StatusMatrix : r[2] # r[3] \/ r[2] # r[4]}}

\* the first of a set of paths in statusMatrix order
FirstPath(S) ==
    PathSeq[CHOOSE i \in 1..Len(PathSeq) :
        /\ PathSeq[i] \in S
        /\ \A j \in 1..(i - 1) : PathSeq[j] \notin S]

\* ----------------------------------------------------------------- settings
\* the placeholder of the commit message template, and what
\* new Date().toLocaleString() returns when syncVault runs
Placeholder == "{{date}}"
Now == "<now>"

\* String.prototype.replace with a string pattern: the first occurrence of
\* the pattern is replaced, later ones are left (a message is the sequence of
\* its pieces)
ReplaceFirst(str, pattern, by) ==
    IF \E i \in 1..Len(str) : str[i] = pattern
    THEN LET i == CHOOSE k \in 1..Len(str) :
                      str[k] = pattern /\ \A j \in 1..(k - 1) : str[j] # pattern
         IN  [j \in 1..Len(str) |-> IF j = i THEN by ELSE str[j]]
    ELSE str

\* syncVault: the commit message, formatted from the template
FormatCommitMessage(template) == ReplaceFirst(template, Placeholder, Now)

\* syncVault: the credentials handed to new GitManager
CredentialsOf(st) ==
    [username |-> st.username, password |-> st.password,
     authorName |-> st.authorName, authorEmail |-> st.authorEmail]

\* settings as saved by a user who filled the settings tab in and kept the
\* default commit message template
SavedSettings ==
    [repoUrl |-> "https://host/repo.git", branchName |-> "main",
     username |-> "ann",
     password |-> "s3cret", authorName |-> "Ann",
     authorEmail |-> "ann@example.org",
     autoCommitMessage |-> <<"Vault backup: ", Placeholder>>]

\* identities git records that are not the plugin's
OtherClient == [name |-> "other", email |-> "other@example.org"]
GlobalIdentity == [name |-> "global", email |-> "global@example.org"]

\* the commit the remote holds at the start
FirstCommit ==
    [tree |-> [p \in Paths |-> 1], parent |-> 0, parent2 |-> 0,
     message |-> <<"other">>, author |-> OtherClient]

\* the author a commit records.  isomorphic-git build: the configured name
\* and email, each replaced by a default when empty.  simple-git build: git
\* takes user.name and user.email from the repository's config (written by
\* initializeRepo after a clone), else from outside the repository, and
\* refuses an empty name.
CommitIdentity ==
    IF variant = "isomorphic"
    THEN [name |-> IF credentials.authorName # "" THEN credentials.authorName
                   ELSE "Obsidian Git Sync",
          email |-> IF credentials.authorEmail # "" THEN credentials.authorEmail
                    ELSE "obsidian@example.com"]
    ELSE IF gitConfig.set
         THEN [name |-> gitConfig.name, email |-> gitConfig.email]
         ELSE GlobalIdentity

\* ------------------------------------------------------------------ network
\* a header a request does not carry
Absent == "<absent>"
NoHeaders == [username |-> Absent, password |-> Absent, authorization |-> Absent]

\* nothing was sent yet, the proxy handled nothing yet
NoRequest ==
    [from |-> "none", op |-> "none", via |-> "none", upstream |-> << >>,
     url |-> << >>, headers |-> NoHeaders, handled |-> FALSE]
NoProxyOut ==
    [received |-> "none", status |-> 0, forwarded |-> FALSE, target |-> << >>,
     path |-> << >>, headers |-> NoHeaders, body |-> "none"]

\* ------------------------------------------------------------ initial state
\* The plugin has been loaded (onload has run: the saved settings ask for an
\* auto-sync every minute, so setupAutoSync has started the interval), the
\* working directory is not a repository yet, the remote holds one commit.
InitFresh ==
    /\ isRepo = FALSE
    /\ commits = << FirstCommit >>
    /\ localHead = 0
    /\ remoteHead = 1
    /\ index = NoTree
    /\ work = NoTree
    /\ unmerged = {}
    /\ mergeHead = 0
    /\ gitConfig = [set |-> FALSE, name |-> "", email |-> "",
                    remoteUrl |-> "", branch |-> ""]
    /\ gitManager = "null"
    /\ credentials = "null"
    /\ statusBar = "Git: Ready"
    /\ prev = "none"
    /\ lastEnded = "none"

\* requests and calls right after onload
InitCalls ==
    /\ wire = NoRequest
    /\ proxyOut = NoProxyOut
    /\ proxyLog = {}
    /\ engineLog = {}
    /\ autoSyncInterval = 1
    /\ intervalId = 1
    /\ timers = {[id |-> 1, ms |-> 1 * 60 * 1000]}
    /\ nextTimer = 2
    /\ savesPending = 0
    /\ unloaded = FALSE
    /\ pc = [c \in Calls |-> "idle"]
    /\ origin = [c \in Calls |-> "none"]
    /\ commitMessage = [c \in Calls |-> << >>]
    /\ startSettings = [c \in Calls |-> settings]
    /\ steps = [c \in Calls |-> << >>]
    /\ failedAt = [c \in Calls |-> "none"]
    /\ error = [c \in Calls |-> "none"]
    /\ outcome = [c \in Calls |-> "none"]
    /\ changedFiles = [c \in Calls |-> {}]
    /\ toAdd = [c \in Calls |-> {}]
    /\ added = [c \in Calls |-> {}]
    /\ madeCommit = [c \in Calls |-> 0]
    /\ nCalls = 0
    /\ nEdits = 0
    /\ nRemote = 0
    /\ nSettings = 0
    /\ othersAtStart = [c \in Calls |-> {}]
    /\ pulled = [c \in Calls |-> 0]
    /\ cleanRun = [c \in Calls |-> FALSE]
    /\ follows = [c \in Calls |-> "none"]

\* getStatus was not called
NoStatus ==
    [called |-> FALSE, ok |-> FALSE, branch |-> "", ahead |-> 0, behind |-> 0]

InitNoStatus ==
    /\ currentBranch = "main"
    /\ originRef = 0
    /\ gitStatus = NoStatus

\* plugin and calls right after onload
InitPlugin == InitNoStatus /\ InitCalls

InitRest == InitFresh /\ InitPlugin

\* The repository as an earlier sync left it whose push failed after its
\* commit (the user had changed a.md): the local branch is one commit ahead
\* of the remote.
InitAhead ==
    /\ isRepo = TRUE
    /\ commits = << FirstCommit,
                    [tree |-> [p \in Paths |-> IF p = PathSeq[1] THEN 2 ELSE 1],
                     parent |-> 1, parent2 |-> 0,
                     message |-> FormatCommitMessage(settings.autoCommitMessage),
                     author |-> [name |-> settings.authorName,
                                 email |-> settings.authorEmail]] >>
    /\ localHead = 2
    /\ remoteHead = 1
    /\ index = commits[2].tree
    /\ work = commits[2].tree
    /\ unmerged = {}
    /\ mergeHead = 0
    /\ gitConfig = [set |-> TRUE, name |-> settings.authorName,
                    email |-> settings.authorEmail,
                    remoteUrl |-> settings.repoUrl,
                    branch |-> settings.branchName]
    /\ gitManager = "created"
    /\ credentials = CredentialsOf(settings)
    /\ statusBar = "Git: Push failed"
    /\ prev = "pushFailed"
    /\ lastEnded = "failed"

\* the plugin with the isomorphic-git build of GitManager (the build main.ts
\* constructs: new GitManager(fs, dir, credentials, statusBarItem))
Init ==
    /\ variant = "isomorphic"
    /\ settings = SavedSettings
    /\ statusBarItem = "set"
    /\ InitRest

\* the plugin with the simple-git build of GitManager
InitSimple ==
    /\ variant = "simple"
    /\ settings = SavedSettings
    /\ statusBarItem = "set"
    /\ InitRest

\* ------------------------------------------------------- the sync pipeline
InFlight == {c \in Calls : pc[c] \notin {"idle", "done", "failed"}}

\* mutant: the ChangeSet is computed (the paths are staged) before the pull
SyncStepsDiffBeforePull ==
    IF variant = "isomorphic"
    THEN <<"initialize", "diff", "pull", "stage", "commit", "push">>
    ELSE <<"initialize", "stage", "pull", "commit", "push">>

\* GitManager.sync: the order in which the steps are awaited
SyncSteps ==
    IF variant = "isomorphic"
    THEN <<"initialize", "pull", "diff", "stage", "commit", "push">>
    ELSE <<"initialize", "pull", "stage", "commit", "push">>

StepAfter(s) ==
    LET i == CHOOSE k \in 1..Len(SyncSteps) : SyncSteps[k] = s
    IN  IF i = Len(SyncSteps) THEN "end" ELSE SyncSteps[i + 1]

\* what follows initializeRepo: the next step of sync, or the return to the
\* "Test" button's handler, which called initializeRepo itself
AfterInitialize(c) ==
    IF origin[c] = "test" THEN "return" ELSE StepAfter("initialize")

\* the promise a step awaits first
AwaitOf(s) ==
    CASE s = "initialize" -> "isRepository"
      [] s = "pull" -> "pull"
      [] s = "diff" -> "getChangedFiles"
      [] s = "stage" -> "addAll"
      [] s = "commit" -> "commit"
      [] s = "push" -> "push"
      [] s = "end" -> "done"
      [] s = "return" -> "done"

\* updateStatus at the start of a step; cur is the text shown before it
StartStatus(s, cur) ==
    CASE s = "pull" -> "Git: Pulling changes..."
      [] s = "stage" -> "Git: Adding changes..."
      [] s = "commit" -> "Git: Committing changes..."
      [] s = "push" -> "Git: Pushing changes..."
      [] s = "end" -> IF variant = "isomorphic" THEN "Git: Ready" ELSE cur
      [] OTHER -> cur

\* history: call c has ended
Ended(c, kind) ==
    /\ prev' = IF cleanRun[c] THEN kind ELSE "none"
    /\ lastEnded' = IF origin[c] = "test" THEN lastEnded
                     ELSE IF kind = "ok" THEN "ok" ELSE "failed"
    /\ UNCHANGED <<cleanRun, follows>>

\* the step a call is in
StepOf(c) == steps[c][Len(steps[c])]

\* the previous step of call c resolved leaving status cur; step s begins
\* (s = "end": sync returns and syncVault resolves)
Begin(c, s, cur) ==
    /\ pc' = [pc EXCEPT ![c] = AwaitOf(s)]
    /\ steps' = [steps EXCEPT
                    ![c] = IF s \in {"end", "return"} THEN @ ELSE Append(@, s)]
    /\ statusBar' = StartStatus(s, cur)
    /\ outcome' = [outcome EXCEPT
                      ![c] = IF s \in {"end", "return"} THEN "Success" ELSE @]
    /\ IF s = "end"
       THEN Ended(c, "ok")
       ELSE /\ cleanRun' = IF StepOf(c) = "pull"
                           THEN [cleanRun EXCEPT ![c] = (InFlight = {c})]
                           ELSE cleanRun
            /\ UNCHANGED <<prev, follows, lastEnded>>
    /\ UNCHANGED <<failedAt, error>>

\* step s of call c threw: the step's catch shows msg and rethrows, sync's
\* catch shows "Sync failed" (isomorphic-git build) and rethrows, syncVault
\* rethrows, the entry point's handler catches
Fail(c, s, msg, err) ==
    /\ pc' = [pc EXCEPT ![c] = "failed"]
    /\ failedAt' = [failedAt EXCEPT ![c] = s]
    /\ error' = [error EXCEPT ![c] = err]
    /\ outcome' = [outcome EXCEPT ![c] = "Failed"]
    /\ statusBar' = IF variant = "isomorphic" /\ origin[c] # "test"
                     THEN "Git: Sync failed" ELSE msg
    /\ Ended(c, IF s = "push" /\ madeCommit[c] # 0 THEN "pushFailed" ELSE "failed")
    /\ UNCHANGED steps

\* --------------------------------------------------------------- entry points
\* mutant: a failure leaves a flag set that makes syncVault refuse the next call
AcceptedUnlessFailed(c) ==
    /\ c = nCalls + 1
    /\ c \in Calls
    /\ \A d \in Calls : pc[d] # "failed"

\* syncVault accepts every request: it keeps no busy flag and no state from
\* an earlier call (calls are numbered in the order they start)
Accepted(c) ==
    /\ c = nCalls + 1
    /\ c \in Calls

\* GitSyncPlugin.syncVault up to the first await inside GitManager.sync:
\* the GitManager is created on first use, then sync starts its first step
StartCall(c, o) ==
    /\ Accepted(c)
    /\ nCalls' = c
    /\ origin' = [origin EXCEPT ![c] = o]
    /\ commitMessage' = [commitMessage EXCEPT
                            ![c] = IF o = "test" THEN << >>
                                   ELSE FormatCommitMessage(settings.autoCommitMessage)]
    /\ startSettings' = [startSettings EXCEPT ![c] = settings]
    /\ othersAtStart' = [othersAtStart EXCEPT ![c] = InFlight]
    /\ cleanRun' = [d \in Calls |-> FALSE]
    /\ follows' = [d \in Calls |->
                     IF d = c THEN (IF InFlight = {} THEN prev ELSE "none")
                     ELSE IF d \in InFlight THEN "none" ELSE follows[d]]
    /\ IF gitManager = "null" /\ statusBarItem = "null"
       THEN \* throw new Error('Status bar item not initialized')
            /\ pc' = [pc EXCEPT ![c] = "failed"]
            /\ error' = [error EXCEPT ![c] = "StatusBarItemNotInitialized"]
            /\ outcome' = [outcome EXCEPT ![c] = "Failed"]
            /\ prev' = "none"
            /\ lastEnded' = IF o = "test" THEN lastEnded ELSE "failed"
            /\ UNCHANGED <<gitManager, credentials, steps, statusBar>>
       ELSE /\ gitManager' = "created"
            /\ credentials' = IF gitManager = "null" THEN CredentialsOf(settings)
                              ELSE credentials
            /\ pc' = [pc EXCEPT ![c] = AwaitOf(SyncSteps[1])]
            /\ steps' = [steps EXCEPT ![c] = <<SyncSteps[1]>>]
            /\ statusBar' = StartStatus(SyncSteps[1], statusBar)
            /\ UNCHANGED <<error, outcome, prev, lastEnded>>
    /\ UNCHANGED <<fixedVars, repoVars, autoSyncInterval, intervalId, timers,
                   nextTimer, savesPending, unloaded, failedAt,
                   changedFiles, toAdd, added, madeCommit, nEdits, nRemote,
                   nSettings, pulled>>

\* ribbon icon, or the "Sync Now" button of the settings tab
ManualSync(c, o) ==
    /\ o \in {"ribbon", "button"}
    /\ ~unloaded
    /\ StartCall(c, o)

\* mutant: the interval callback awaits syncVault outside any try
CatchingButTimer == {"ribbon", "button", "test"}

\* the entry points whose handler awaits the call inside try ... catch
Catching == {"ribbon", "button", "timer", "test"}

\* what the handler of the entry point that started call c did when the call
\* settled: a Notice or a console line; a rejection no catch receives is the
\* runtime's unhandled rejection
HandlerReport(c) ==
    CASE outcome[c] = "none" -> "none"
      [] outcome[c] \in {"Success", "NoChanges"} ->
             CASE origin[c] = "timer" -> "console.log: Auto sync completed"
               [] origin[c] = "test" -> "Notice: Connection successful!"
               [] OTHER -> "Notice: Git sync completed successfully"
      [] outcome[c] = "Failed" /\ origin[c] \in Catching ->
             CASE origin[c] = "timer" -> "console.error: Auto sync failed"
               [] origin[c] = "test" -> "Notice: Connection test failed"
               [] OTHER -> "Notice: Git sync failed"
      [] OTHER -> "unhandled rejection"

\* the "Test" button of the settings tab: with a repository URL entered, the
\* GitManager is created on first use and initializeRepo is called
TestConnection(c) ==
    /\ ~unloaded
    /\ settings.repoUrl # ""
    /\ StartCall(c, "test")

\* the window.setInterval callback of setupAutoSync
TimerTick(c, t) ==
    /\ t \in timers
    /\ StartCall(c, "timer")

\* ------------------------------------------------------------------ initialize
\* initializeRepo after isRepository resolved
IsRepositoryDone(c) ==
    /\ pc[c] = "isRepository"
    /\ IF isRepo
       THEN Begin(c, AfterInitialize(c), "Git: Repository already exists")
       ELSE /\ pc' = [pc EXCEPT ![c] = "clone"]
            /\ statusBar' = "Git: Cloning repository..."
            /\ UNCHANGED <<steps, outcome, failedAt, error, cleanRun, prev, follows, lastEnded>>
    /\ UNCHANGED <<fixedVars, repoVars, pluginVars, changedFiles, toAdd, added,
                   madeCommit, nCalls, nEdits, nRemote, nSettings, othersAtStart,
                   pulled, origin, commitMessage,
                   startSettings>>

\* git.clone resolved: the remote branch is checked out.  A checkout that
\* would overwrite a differing file of the working directory throws instead.
CloneOk(c) ==
    /\ pc[c] = "clone"
    /\ IF isRepo
       THEN UNCHANGED repoVars
       ELSE /\ \A p \in Paths : work[p] = 0 \/ work[p] = TreeOf(remoteHead)[p]
            /\ isRepo' = TRUE
            /\ gitConfig' =
                   [set |-> variant = "simple",
                    name |-> IF variant = "simple" THEN credentials.authorName
                             ELSE gitConfig.name,
                    email |-> IF variant = "simple" THEN credentials.authorEmail
                              ELSE gitConfig.email,
                    remoteUrl |-> startSettings[c].repoUrl,
                    branch |-> startSettings[c].branchName]
            /\ localHead' = remoteHead
            /\ index' = TreeOf(remoteHead)
            /\ work' = TreeOf(remoteHead)
            /\ UNCHANGED <<commits, remoteHead, mergeVars>>
    /\ Begin(c, AfterInitialize(c), "Git: Repository cloned")
    /\ UNCHANGED <<fixedVars, pluginVars, changedFiles, toAdd, added, madeCommit,
                   nCalls, nEdits, nRemote, nSettings, othersAtStart, pulled, origin, commitMessage,
                   startSettings>>

\* git.clone rejected (network, authentication, checkout conflict)
CloneFail(c) ==
    /\ pc[c] = "clone"
    /\ Fail(c, "initialize", "Git: Failed to initialize", "CloneFailed")
    /\ UNCHANGED <<fixedVars, repoVars, pluginVars, changedFiles, toAdd, added,
                   madeCommit, nCalls, nEdits, nRemote, nSettings, othersAtStart,
                   pulled, origin, commitMessage,
                   startSettings>>

\* ------------------------------------------------------------------------ pull
\* paths whose local state blocks the checkout of commit h over localHead
Blocked(h) ==
    {p \in Paths : /\ TreeOf(h)[p] # TreeOf(localHead)[p]
                   /\ \/ work[p] # TreeOf(localHead)[p]
                      \/ index[p] # TreeOf(localHead)[p]}

\* a merge was started and not concluded: git pull refuses to run
MergeInProgress == unmerged # {} \/ mergeHead # 0

\* the two tips have diverged: neither contains the other
Diverged == ~IsAncestor(remoteHead, localHead) /\ ~IsAncestor(localHead, remoteHead)

\* the youngest commit both tips contain (0: none)
MergeBase ==
    LET common == {h \in 0..Len(commits) :
                      IsAncestor(h, localHead) /\ IsAncestor(h, remoteHead)}
    IN  CHOOSE h \in common : \A g \in common : g <= h

\* three-way merge of the remote tip into the local tip, path by path
MergedTree ==
    LET l == TreeOf(localHead)
        r == TreeOf(remoteHead)
        b == TreeOf(MergeBase)
    IN  [p \in Paths |->
            IF l[p] = r[p] THEN l[p]
            ELSE IF l[p] = b[p] THEN r[p]
            ELSE IF r[p] = b[p] THEN l[p]
            ELSE Conflicted]

\* git merge starts only from an index equal to HEAD and does not overwrite
\* a file changed in the working directory
MergeAllowed ==
    /\ index = TreeOf(localHead)
    /\ \A p \in Paths :
           MergedTree[p] # TreeOf(localHead)[p] => work[p] = TreeOf(localHead)[p]

\* git pull of the simple-git build on diverged tips, no path in conflict:
\* git writes the merge commit and checks it out
PullMerge(c) ==
    /\ pc[c] = "pull"
    /\ variant = "simple"
    /\ isRepo
    /\ MergeInProgress = FALSE
    /\ Diverged
    /\ MergeAllowed
    /\ \A p \in Paths : MergedTree[p] # Conflicted
    /\ CommitIdentity.name # ""
    /\ commits' = Append(commits, [tree |-> MergedTree, parent |-> localHead,
                                   parent2 |-> remoteHead,
                                   message |-> <<"Merge">>,
                                   author |-> CommitIdentity])
    /\ localHead' = Len(commits) + 1
    /\ index' = MergedTree
    /\ work' = [p \in Paths |->
          IF MergedTree[p] # TreeOf(localHead)[p] THEN MergedTree[p] ELSE work[p]]
    /\ pulled' = [pulled EXCEPT ![c] = remoteHead]
    /\ Begin(c, StepAfter("pull"), "Git: Pull completed")
    /\ UNCHANGED <<fixedVars, isRepo, gitConfig, remoteHead, mergeVars, pluginVars,
                   changedFiles, toAdd, added, madeCommit, nCalls, nEdits,
                   nRemote, nSettings, othersAtStart, origin, commitMessage,
                   startSettings>>

\* git pull of the simple-git build on diverged tips with a path changed on
\* both sides: git leaves the conflict in the working directory (the file
\* with conflict markers), the path unmerged in the index and MERGE_HEAD set,
\* and exits with an error
PullConflict(c) ==
    /\ pc[c] = "pull"
    /\ variant = "simple"
    /\ isRepo
    /\ MergeInProgress = FALSE
    /\ Diverged
    /\ MergeAllowed
    /\ \E p \in Paths : MergedTree[p] = Conflicted
    /\ unmerged' = {p \in Paths : MergedTree[p] = Conflicted}
    /\ mergeHead' = remoteHead
    /\ index' = [p \in Paths |->
          IF MergedTree[p] = Conflicted THEN index[p] ELSE MergedTree[p]]
    /\ work' = [p \in Paths |->
          IF MergedTree[p] # TreeOf(localHead)[p] THEN MergedTree[p] ELSE work[p]]
    /\ Fail(c, "pull", "Git: Pull failed", "MergeConflict")
    /\ UNCHANGED <<fixedVars, isRepo, gitConfig, commits, localHead, remoteHead, pluginVars,
                   changedFiles, toAdd, added, madeCommit, nCalls, nEdits,
                   nRemote, nSettings, othersAtStart, pulled, origin, commitMessage,
                   startSettings>>

\* git.pull resolved: fetch, then fast-forward merge and checkout.  It can
\* resolve only when the remote tip is already merged or the local tip
\* fast-forwards to it without touching a locally changed path.
PullOk(c) ==
    /\ pc[c] = "pull"
    /\ isRepo
    /\ MergeInProgress = FALSE
    /\ \/ /\ IsAncestor(remoteHead, localHead)
          /\ UNCHANGED repoVars
       \/ /\ ~IsAncestor(remoteHead, localHead)
          /\ IsAncestor(localHead, remoteHead)
          /\ Blocked(remoteHead) = {}
          /\ localHead' = remoteHead
          /\ index' = [p \in Paths |->
                IF TreeOf(remoteHead)[p] # TreeOf(localHead)[p]
                THEN TreeOf(remoteHead)[p] ELSE index[p]]
          /\ work' = [p \in Paths |->
                IF TreeOf(remoteHead)[p] # TreeOf(localHead)[p]
                THEN TreeOf(remoteHead)[p] ELSE work[p]]
          /\ UNCHANGED <<isRepo, gitConfig, mergeVars, commits, remoteHead>>
    /\ pulled' = [pulled EXCEPT ![c] = remoteHead]
    /\ Begin(c, StepAfter("pull"), "Git: Pull completed")
    /\ UNCHANGED <<fixedVars, pluginVars, changedFiles, toAdd, added, madeCommit,
                   nCalls, nEdits, nRemote, nSettings, othersAtStart, origin, commitMessage,
                   startSettings>>

\* git.pull rejected (network, authentication, merge or checkout conflict)
PullFail(c) ==
    /\ pc[c] = "pull"
    /\ Fail(c, "pull", "Git: Pull failed", "PullFailed")
    /\ UNCHANGED <<fixedVars, repoVars, pluginVars, changedFiles, toAdd, added,
                   madeCommit, nCalls, nEdits, nRemote, nSettings, othersAtStart,
                   pulled, origin, commitMessage,
                   startSettings>>

\* the http client a network operation is handed: GitHttpClient (requests go
\* to the proxy) for git.clone and git.push, isomorphic-git's own web client
\* (requests go to the remote itself) for git.pull; the simple-git build
\* runs the git program
Transport(op) ==
    IF variant = "isomorphic"
    THEN (IF op = "pull" THEN "isomorphic-git/http/web" ELSE "GitHttpClient")
    ELSE "git"

\* git.pull({ref: branchName}) and git.push({remote: 'origin', ref:
\* branchName}): the remote is the one the repository's config holds, the
\* branch the one sync was handed
PullTarget(c) ==
    [remoteUrl |-> gitConfig.remoteUrl, branch |-> startSettings[c].branchName]

\* ------------------------------------------------------------------------ diff
\* sync short-circuits when getChangedFiles found nothing
NothingToCommit(files) == files = {}

\* sync after getChangedFiles resolved (isomorphic-git build)
Diff(c) ==
    /\ pc[c] = "getChangedFiles"
    /\ isRepo
    /\ changedFiles' = [changedFiles EXCEPT ![c] = GetChangedFiles]
    /\ IF NothingToCommit(GetChangedFiles)
       THEN /\ pc' = [pc EXCEPT ![c] = "done"]
            /\ outcome' = [outcome EXCEPT ![c] = "NoChanges"]
            /\ statusBar' = "Git: Ready"
            /\ Ended(c, "ok")
            /\ UNCHANGED <<steps, failedAt, error>>
       ELSE Begin(c, StepAfter("diff"), statusBar)
    /\ UNCHANGED <<fixedVars, repoVars, pluginVars, toAdd, added, madeCommit,
                   nCalls, nEdits, nRemote, nSettings, othersAtStart, pulled, origin, commitMessage,
                   startSettings>>

\* ----------------------------------------------------------------------- stage
\* addAll after its own getChangedFiles resolved (isomorphic-git build)
AddAllFiles(c) ==
    /\ pc[c] = "addAll"
    /\ variant = "isomorphic"
    /\ isRepo
    /\ toAdd' = [toAdd EXCEPT ![c] = GetChangedFiles]
    /\ IF GetChangedFiles = {}
       THEN Begin(c, StepAfter("stage"), "Git: Changes added")
       ELSE /\ pc' = [pc EXCEPT ![c] = "add"]
            /\ UNCHANGED <<steps, statusBar, outcome, failedAt, error, cleanRun, prev,
                           follows, lastEnded>>
    /\ UNCHANGED <<fixedVars, repoVars, pluginVars, changedFiles, added, madeCommit,
                   nCalls, nEdits, nRemote, nSettings, othersAtStart, pulled, origin, commitMessage,
                   startSettings>>

\* one git.add of addAll's loop resolved: a path that is in the working
\* directory is written to the index, a path that is not throws
GitAdd(c) ==
    /\ pc[c] = "add"
    /\ LET f == FirstPath(toAdd[c])
           rest == toAdd[c] \ {f}
       IN  IF work[f] = 0
           THEN /\ Fail(c, "stage", "Git: Failed to add changes", "NotFound")
                /\ UNCHANGED <<index, toAdd, added>>
           ELSE /\ index' = [index EXCEPT ![f] = work[f]]
                /\ added' = [added EXCEPT ![c] = @ \cup {f}]
                /\ toAdd' = [toAdd EXCEPT ![c] = rest]
                /\ IF rest = {}
                   THEN Begin(c, StepAfter("stage"), "Git: Changes added")
                   ELSE UNCHANGED <<pc, steps, statusBar, outcome, failedAt, error,
                                    cleanRun, prev, follows, lastEnded>>
    /\ UNCHANGED <<fixedVars, isRepo, gitConfig, mergeVars, commits, localHead, remoteHead, work,
                   pluginVars, changedFiles, madeCommit, nCalls, nEdits, nRemote,
                   nSettings, othersAtStart, pulled, origin, commitMessage,
                   startSettings>>

\* addAll of the simple-git build: git add '.' finds the paths that differ
\* from HEAD and stages them, deletions included (changedFiles records what
\* git found: this build of sync computes no list of its own)
AddAllSimple(c) ==
    /\ pc[c] = "addAll"
    /\ variant = "simple"
    /\ isRepo
    /\ changedFiles' = [changedFiles EXCEPT ![c] = GetChangedFiles]
    /\ index' = work
    /\ unmerged' = {}
    /\ added' = [added EXCEPT ![c] = GetChangedFiles \cup unmerged]
    /\ Begin(c, StepAfter("stage"), "Git: Changes added")
    /\ UNCHANGED <<fixedVars, isRepo, gitConfig, mergeHead, commits, localHead, remoteHead, work,
                   pluginVars, toAdd, madeCommit, nCalls, nEdits,
                   nRemote, nSettings, othersAtStart, pulled, origin, commitMessage,
                   startSettings>>

\* ---------------------------------------------------------------------- commit
\* git.commit resolved.  isomorphic-git writes a commit of the index whatever
\* it holds; git (simple-git build) writes none when nothing is staged and no
\* merge is in progress, concludes a merge in progress as a merge commit, and
\* rejects while the index holds unmerged entries
Commit(c) ==
    /\ pc[c] = "commit"
    /\ isRepo
    /\ unmerged = {}
    /\ CommitIdentity.name # ""
    /\ IF variant = "simple" /\ index = TreeOf(localHead) /\ mergeHead = 0
       THEN UNCHANGED <<commits, localHead, madeCommit>>
       ELSE /\ commits' = Append(commits, [tree |-> index, parent |-> localHead,
                                           parent2 |-> mergeHead,
                                           message |-> commitMessage[c],
                                           author |-> CommitIdentity])
            /\ localHead' = Len(commits) + 1
            /\ madeCommit' = [madeCommit EXCEPT ![c] = Len(commits) + 1]
    /\ mergeHead' = 0
    /\ Begin(c, StepAfter("commit"), "Git: Changes committed")
    /\ UNCHANGED <<fixedVars, isRepo, gitConfig, unmerged, remoteHead, index, work, pluginVars,
                   changedFiles, toAdd, added, nCalls, nEdits, nRemote, nSettings,
                   othersAtStart, pulled, origin, commitMessage,
                   startSettings>>

\* mutant: the catch block of the step logs the error and does not rethrow it
LocalFailSwallowed(c) ==
    /\ pc[c] \in {"getChangedFiles", "addAll", "add", "commit"}
    /\ Begin(c, StepAfter(StepOf(c)), statusBar)
    /\ UNCHANGED <<fixedVars, repoVars, pluginVars, changedFiles, toAdd, added,
                   madeCommit, nCalls, nEdits, nRemote, nSettings, othersAtStart,
                   pulled, origin, commitMessage,
                   startSettings>>

\* a local operation (statusMatrix, git.add, git.commit) rejected with a
\* file system error
LocalFail(c) ==
    /\ pc[c] \in {"getChangedFiles", "addAll", "add", "commit"}
    /\ Fail(c, StepOf(c),
            CASE StepOf(c) = "stage" -> "Git: Failed to add changes"
              [] StepOf(c) = "commit" -> "Git: Commit failed"
              [] OTHER -> statusBar,
            "FileSystem")
    /\ UNCHANGED <<fixedVars, repoVars, pluginVars, changedFiles, toAdd, added,
                   madeCommit, nCalls, nEdits, nRemote, nSettings, othersAtStart,
                   pulled, origin, commitMessage,
                   startSettings>>

\* ------------------------------------------------------------------------ push
\* git.push resolved: the remote accepts a tip that contains its own
PushOk(c) ==
    /\ pc[c] = "push"
    /\ isRepo
    /\ IsAncestor(remoteHead, localHead)
    /\ remoteHead' = localHead
    /\ Begin(c, StepAfter("push"), "Git: Push completed")
    /\ UNCHANGED <<fixedVars, isRepo, gitConfig, mergeVars, commits, localHead, index, work, pluginVars,
                   changedFiles, toAdd, added, madeCommit, nCalls, nEdits,
                   nRemote, nSettings, othersAtStart, pulled, origin, commitMessage,
                   startSettings>>

\* mutant: a rejected push is repeated with force
PushRejectedThenForced(c) ==
    /\ pc[c] = "push"
    /\ ~IsAncestor(remoteHead, localHead)
    /\ remoteHead' = localHead
    /\ Begin(c, StepAfter("push"), "Git: Push completed")
    /\ UNCHANGED <<fixedVars, isRepo, gitConfig, mergeVars, commits, localHead, index, work, pluginVars,
                   changedFiles, toAdd, added, madeCommit, nCalls, nEdits,
                   nRemote, nSettings, othersAtStart, pulled, origin, commitMessage,
                   startSettings>>

\* git.push rejected: the remote has commits the local tip does not contain
PushRejected(c) ==
    /\ pc[c] = "push"
    /\ ~IsAncestor(remoteHead, localHead)
    /\ Fail(c, "push", "Git: Push failed", "PushRejected")
    /\ UNCHANGED <<fixedVars, repoVars, pluginVars, changedFiles, toAdd, added,
                   madeCommit, nCalls, nEdits, nRemote, nSettings, othersAtStart,
                   pulled, origin, commitMessage,
                   startSettings>>

\* git.push rejected (network, authentication)
PushFail(c) ==
    /\ pc[c] = "push"
    /\ Fail(c, "push", "Git: Push failed", "PushFailed")
    /\ UNCHANGED <<fixedVars, repoVars, pluginVars, changedFiles, toAdd, added,
                   madeCommit, nCalls, nEdits, nRemote, nSettings, othersAtStart,
                   pulled, origin, commitMessage,
                   startSettings>>

\* ------------------------------------------------------------ auto-sync timer
\* mutant: setupAutoSync starts the new interval without clearing the old one
ClearNothing == timers

\* clearAutoSync, as the set of intervals left active
ClearAutoSync == {t \in timers : t.id # intervalId}

\* setupAutoSync: clear the interval held in intervalId, start a new one when
\* the interval setting is positive
SetupAutoSync ==
    IF autoSyncInterval > 0
    THEN /\ timers' = ClearAutoSync \cup
                      {[id |-> nextTimer, ms |-> autoSyncInterval * 60 * 1000]}
         /\ intervalId' = nextTimer
         /\ nextTimer' = nextTimer + 1
    ELSE /\ timers' = ClearAutoSync
         /\ intervalId' = 0
         /\ UNCHANGED nextTimer

\* "Auto Sync Interval" onChange up to the await of saveData in saveSettings
ChangeAutoSyncInterval(v) ==
    /\ ~unloaded
    /\ nSettings < MaxSettings
    /\ v \in 0..MaxInterval
    /\ v # autoSyncInterval
    /\ autoSyncInterval' = v
    /\ savesPending' = savesPending + 1
    /\ nSettings' = nSettings + 1
    /\ UNCHANGED <<fixedVars, repoVars, gitManager, credentials, intervalId, timers, nextTimer,
                   unloaded, statusBar, callVars, nCalls, nEdits, nRemote,
                   othersAtStart, pulled, cleanRun, prev, follows, lastEnded>>

\* what the user types into a text field of the settings tab in place of the
\* saved value
Typed ==
    [repoUrl |-> "https://host/other.git", branchName |-> "dev",
     username |-> "bob", password |-> "n3w", authorName |-> "Bob",
     authorEmail |-> "bob@example.org"]

\* onChange of the Repository URL, Branch, Username, Password/Token, Author
\* Name or Author Email field, up to the await of saveData in saveSettings:
\* the value is written into the settings
ChangeSetting(field) ==
    /\ ~unloaded
    /\ nSettings < MaxSettings
    /\ field \in DOMAIN Typed
    /\ settings[field] # Typed[field]
    /\ settings' = [settings EXCEPT ![field] = Typed[field]]
    /\ savesPending' = savesPending + 1
    /\ nSettings' = nSettings + 1
    /\ UNCHANGED <<variant, statusBarItem, netVars, statusVars, repoVars,
                   gitManager, credentials, autoSyncInterval, intervalId, timers,
                   nextTimer, unloaded, statusBar, callVars, nCalls, nEdits,
                   nRemote, othersAtStart, pulled, cleanRun, prev, follows,
                   lastEnded>>

\* saveSettings after saveData resolved
SaveDataDone ==
    /\ savesPending > 0
    /\ savesPending' = savesPending - 1
    /\ SetupAutoSync
    /\ UNCHANGED <<fixedVars, repoVars, gitManager, credentials, autoSyncInterval, unloaded,
                   statusBar, callVars, histVars>>

Onunload ==
    /\ ~unloaded
    /\ unloaded' = TRUE
    /\ timers' = ClearAutoSync
    /\ intervalId' = 0
    /\ UNCHANGED <<fixedVars, repoVars, gitManager, credentials, autoSyncInterval, nextTimer,
                   savesPending, statusBar, callVars, histVars>>

\* ----------------------------------------------------------------- environment
\* history: the working directory or the remote changed
Disturb ==
    /\ cleanRun' = [c \in Calls |-> FALSE]
    /\ follows' = [c \in Calls |-> IF c \in InFlight THEN "none" ELSE follows[c]]
    /\ prev' = "none"
    /\ UNCHANGED lastEnded

\* the user creates, changes or deletes a file of the vault
UserEdit(p, v) ==
    /\ nEdits < MaxEdits
    /\ p \in Paths
    /\ v \in Contents
    /\ v # work[p]
    /\ work' = [work EXCEPT ![p] = v]
    /\ nEdits' = nEdits + 1
    /\ Disturb
    /\ UNCHANGED <<fixedVars, isRepo, gitConfig, mergeVars, commits, localHead, remoteHead, index,
                   pluginVars, statusBar, callVars, nCalls, nRemote, nSettings,
                   othersAtStart, pulled>>

\* another client pushes a commit that changes or deletes one path
RemoteAdvance(p, v) ==
    /\ nRemote < MaxRemote
    /\ p \in Paths
    /\ v \in Contents
    /\ v # TreeOf(remoteHead)[p]
    /\ commits' = Append(commits, [tree |-> [TreeOf(remoteHead) EXCEPT ![p] = v],
                                   parent |-> remoteHead, parent2 |-> 0,
                                   message |-> <<"other">>,
                                   author |-> OtherClient])
    /\ remoteHead' = Len(commits) + 1
    /\ nRemote' = nRemote + 1
    /\ Disturb
    /\ UNCHANGED <<fixedVars, isRepo, gitConfig, mergeVars, localHead, index, work, pluginVars,
                   statusBar, callVars, nCalls, nEdits, nSettings, othersAtStart,
                   pulled>>

\* ------------------------------------------------------------- specifications
Common ==
    \/ \E c \in Calls, o \in Origins : ManualSync(c, o)
    \/ \E c \in Calls, t \in timers : TimerTick(c, t)
    \/ \E c \in Calls : IsRepositoryDone(c)
    \/ \E c \in Calls : CloneOk(c)
    \/ \E c \in Calls : CloneFail(c)
    \/ \E c \in Calls : PullOk(c)
    \/ \E c \in Calls : PullFail(c)
    \/ \E c \in Calls : Commit(c)
    \/ \E c \in Calls : LocalFail(c)
    \/ \E c \in Calls : PushOk(c)
    \/ \E c \in Calls : PushRejected(c)
    \/ \E c \in Calls : PushFail(c)
    \/ \E p \in Paths, v \in Contents : UserEdit(p, v)
    \/ \E p \in Paths, v \in Contents : RemoteAdvance(p, v)

\* the plugin with the isomorphic-git build of GitManager
Next ==
    \/ Common
    \/ \E c \in Calls : Diff(c)
    \/ \E c \in Calls : AddAllFiles(c)
    \/ \E c \in Calls : GitAdd(c)

Spec == Init /\ [][Next]_vars

\* settings changes and unload
Lifecycle ==
    \/ \E v \in 0..MaxInterval : ChangeAutoSyncInterval(v)
    \/ SaveDataDone
    \/ Onunload

NextLifecycle == Next \/ Lifecycle

SpecLifecycle == Init /\ [][NextLifecycle]_vars

\* The user changes the settings between syncs: a sync or a connection test
\* is started when none is running, nobody else pushes to the remote.
NextSettings ==
    \/ \E o \in Origins : InFlight = {} /\ ManualSync(nCalls + 1, o)
    \/ \E t \in timers : InFlight = {} /\ TimerTick(nCalls + 1, t)
    \/ InFlight = {} /\ TestConnection(nCalls + 1)
    \/ \E f \in DOMAIN Typed : ChangeSetting(f)
    \/ SaveDataDone
    \/ \E c \in Calls : IsRepositoryDone(c)
    \/ \E c \in Calls : CloneOk(c)
    \/ \E c \in Calls : CloneFail(c)
    \/ \E c \in Calls : PullOk(c)
    \/ \E c \in Calls : PullFail(c)
    \/ \E c \in Calls : Diff(c)
    \/ \E c \in Calls : AddAllFiles(c)
    \/ \E c \in Calls : GitAdd(c)
    \/ \E c \in Calls : Commit(c)
    \/ \E c \in Calls : LocalFail(c)
    \/ \E c \in Calls : PushOk(c)
    \/ \E c \in Calls : PushFail(c)
    \/ \E p \in Paths, v \in Contents : UserEdit(p, v)

SpecSettings == Init /\ [][NextSettings]_vars

\* The plugin through settings changes and unload: syncs are started one
\* after the other, nobody else pushes to the remote.
NextTimer ==
    \/ \E o \in Origins : InFlight = {} /\ ManualSync(nCalls + 1, o)
    \/ \E t \in timers : InFlight = {} /\ TimerTick(nCalls + 1, t)
    \/ \E v \in 0..MaxInterval : ChangeAutoSyncInterval(v)
    \/ SaveDataDone
    \/ Onunload
    \/ \E c \in Calls : IsRepositoryDone(c)
    \/ \E c \in Calls : CloneOk(c)
    \/ \E c \in Calls : CloneFail(c)
    \/ \E c \in Calls : PullOk(c)
    \/ \E c \in Calls : PullFail(c)
    \/ \E c \in Calls : Diff(c)
    \/ \E c \in Calls : AddAllFiles(c)
    \/ \E c \in Calls : GitAdd(c)
    \/ \E c \in Calls : Commit(c)
    \/ \E c \in Calls : LocalFail(c)
    \/ \E c \in Calls : PushOk(c)
    \/ \E c \in Calls : PushFail(c)
    \/ \E p \in Paths, v \in Contents : UserEdit(p, v)

SpecTimer == Init /\ [][NextTimer]_vars

\* every entry point: ribbon icon, "Sync Now", the timer, the "Test" button
NextEntry == Next \/ \E c \in Calls : TestConnection(c)

SpecEntry == Init /\ [][NextEntry]_vars

NextSimple ==
    \/ \E c \in Calls : PullMerge(c)
    \/ \E c \in Calls : PullConflict(c)
    \/ Common
    \/ \E c \in Calls : AddAllSimple(c)

SpecSimple == InitSimple /\ [][NextSimple]_vars

\* the simple-git build, started fresh or with an unpushed commit
InitSimpleAhead ==
    /\ variant = "simple"
    /\ settings = SavedSettings
    /\ statusBarItem = "set"
    /\ InitAhead
    /\ InitPlugin

SpecSimpleAhead == (InitSimple \/ InitSimpleAhead) /\ [][NextSimple]_vars

\* both builds of GitManager
InitBoth == Init \/ InitSimple

NextBoth == Next \/ NextSimple

SpecBoth == InitBoth /\ [][NextBoth]_vars

\* The plugin as configured by any user: the commit message template, the
\* author name and email are whatever the settings tab accepted (each may be
\* empty), and the host may have handed out no status bar item.  The user
\* starts a sync only when none is running and nobody else pushes to the
\* remote.
Templates ==
    UNION {[1..n -> {"Vault backup: ", Placeholder}] : n \in 0..MaxTemplate}

ConfigSettings ==
    {[SavedSettings EXCEPT !.autoCommitMessage = t, !.authorName = n,
                           !.authorEmail = e] :
        t \in Templates, n \in {"", "Ann"}, e \in {"", "ann@example.org"}}

InitConfig ==
    /\ variant \in {"isomorphic", "simple"}
    /\ settings \in ConfigSettings
    /\ statusBarItem \in {"set", "null"}
    /\ InitRest

NextConfig ==
    \/ \E o \in Origins : InFlight = {} /\ ManualSync(nCalls + 1, o)
    \/ \E t \in timers : InFlight = {} /\ TimerTick(nCalls + 1, t)
    \/ \E c \in Calls : IsRepositoryDone(c)
    \/ \E c \in Calls : CloneOk(c)
    \/ \E c \in Calls : CloneFail(c)
    \/ \E c \in Calls : PullOk(c)
    \/ \E c \in Calls : PullFail(c)
    \/ \E c \in Calls : Diff(c)
    \/ \E c \in Calls : AddAllFiles(c)
    \/ \E c \in Calls : GitAdd(c)
    \/ \E c \in Calls : AddAllSimple(c)
    \/ \E c \in Calls : Commit(c)
    \/ \E c \in Calls : LocalFail(c)
    \/ \E c \in Calls : PushOk(c)
    \/ \E c \in Calls : PushFail(c)
    \/ \E p \in Paths, v \in Contents : UserEdit(p, v)

SpecConfig == InitConfig /\ [][NextConfig]_vars

\* A local operation (file system, index) settles once it is awaited; a
\* network operation (clone, pull, push) settles only if the remote answers,
\* and no step of the code arms a timer for it.
LocalStep(c) ==
    \/ IsRepositoryDone(c)
    \/ Diff(c)
    \/ AddAllFiles(c)
    \/ GitAdd(c)
    \/ Commit(c)
    \/ LocalFail(c)

LiveSpec == Init /\ [][Next]_vars /\ \A c \in Calls : WF_vars(LocalStep(c))

\* ================================================================== network
\* A URL is the sequence of its pieces: the scheme with "://", the optional
\* userinfo with "@", the host, then single characters and words.
Schemes == {"https://", "http://"}
Hosts == {"host", "localhost:3001"}

\* the pieces of a URL held as a string in the settings
UrlPieces(str) ==
    IF str = "https://host/repo.git"
    THEN <<"https://", "host", "/", "repo.git">>
    ELSE <<str>>

\* `${username}:${password}@`
UserInfo(username, password) == username \o ":" \o password \o "@"
UserInfos == {UserInfo(u, p) : u \in {"", "ann"}, p \in {"", "s3cret"}}

\* encodeURIComponent, piece by piece: every character but letters, digits
\* and - _ . ! ~ * ' ( ) becomes its %XX escape
EncodeChar(t) ==
    CASE t = "https://" -> "https%3A%2F%2F"
      [] t = "http://" -> "http%3A%2F%2F"
      [] t = "localhost:3001" -> "localhost%3A3001"
      [] t = ":@" -> "%3A%40"
      [] t = "ann:@" -> "ann%3A%40"
      [] t = ":s3cret@" -> "%3As3cret%40"
      [] t = "ann:s3cret@" -> "ann%3As3cret%40"
      [] t = "/" -> "%2F"
      [] t = "?" -> "%3F"
      [] t = "=" -> "%3D"
      [] t = "&" -> "%26"
      [] t = "#" -> "%23"
      [] t = "+" -> "%2B"
      [] t = " " -> "%20"
      [] t = "," -> "%2C"
      [] OTHER -> t

\* the URL appended as it is
EncodeNothing(u) == u

EncodeURIComponent(u) == [i \in 1..Len(u) |-> EncodeChar(u[i])]

\* decodeURIComponent of one piece: an escape becomes its character
DecodeChar(t) ==
    CASE t = "https%3A%2F%2F" -> "https://"
      [] t = "http%3A%2F%2F" -> "http://"
      [] t = "localhost%3A3001" -> "localhost:3001"
      [] t = "%3A%40" -> ":@"
      [] t = "ann%3A%40" -> "ann:@"
      [] t = "%3As3cret%40" -> ":s3cret@"
      [] t = "ann%3As3cret%40" -> "ann:s3cret@"
      [] t = "%2F" -> "/"
      [] t = "%3F" -> "?"
      [] t = "%3D" -> "="
      [] t = "%26" -> "&"
      [] t = "%23" -> "#"
      [] t = "%2B" -> "+"
      [] t = "%20" -> " "
      [] t = "%2C" -> ","
      [] OTHER -> t

\* the decoder of express's query parser: "+" is a space, then the escapes
QueryDecode(u) ==
    [i \in 1..Len(u) |-> IF u[i] = "+" THEN " " ELSE DecodeChar(u[i])]

\* position of the first piece of u that is in the set (0: none)
FirstOf(u, set) ==
    IF \E i \in 1..Len(u) : u[i] \in set
    THEN CHOOSE i \in 1..Len(u) :
             u[i] \in set /\ \A j \in 1..(i - 1) : u[j] \notin set
    ELSE 0

Before(u, set) ==
    IF FirstOf(u, set) = 0 THEN u ELSE SubSeq(u, 1, FirstOf(u, set) - 1)

\* from the first piece in the set on, that piece included
From(u, set) ==
    IF FirstOf(u, set) = 0 THEN << >> ELSE SubSeq(u, FirstOf(u, set), Len(u))

After(u, set) ==
    IF FirstOf(u, set) = 0 THEN << >> ELSE Tail(From(u, set))

RECURSIVE SplitOn(_, _)
SplitOn(u, sep) ==
    IF FirstOf(u, {sep}) = 0 THEN <<u>>
    ELSE <<Before(u, {sep})>> \o SplitOn(After(u, {sep}), sep)

RECURSIVE Join(_, _)
Join(seqs, sep) ==
    IF Len(seqs) = 0 THEN << >>
    ELSE IF Len(seqs) = 1 THEN seqs[1]
    ELSE seqs[1] \o <<sep>> \o Join(Tail(seqs), sep)

\* the query string of a request URL as the server receives it: what follows
\* the first "?"; the client does not send the fragment
QueryString(url) == After(Before(url, {"#"}), {"?"})

\* req.query.url: express splits the query string on "&", each parameter on
\* its first "=", and decodes key and value; a key given several times
\* yields an array, which new URL turns into its comma-joined text
QueryUrl(url) ==
    LET parts == SplitOn(QueryString(url), "&")
        hits == SelectSeq(parts, LAMBDA part :
                    QueryDecode(Before(part, {"="})) = <<"url">>)
        values == [i \in 1..Len(hits) |-> QueryDecode(After(hits[i], {"="}))]
    IN  [defined |-> Len(hits) > 0, value |-> Join(values, ",")]

\* new URL(text): throws unless the text is an absolute URL; pathname is "/"
\* when the path is empty, search is "" when the query is empty, the
\* fragment is kept apart, a space is escaped
EscapeSpace(u) == [i \in 1..Len(u) |-> IF u[i] = " " THEN "%20" ELSE u[i]]

ParseURL(v) ==
    LET h == IF Len(v) >= 2 /\ v[2] \in UserInfos THEN 3 ELSE 2
        valid == /\ Len(v) >= h
                 /\ v[1] \in Schemes
                 /\ v[h] \in Hosts
                 /\ Len(v) > h => v[h + 1] \in {"/", "?", "#"}
        rest == Before(SubSeq(v, h + 1, Len(v)), {"#"})
        path == Before(rest, {"?"})
        query == From(rest, {"?"})
    IN  IF valid
        THEN [valid |-> TRUE, protocol |-> v[1], host |-> v[h],
              pathname |-> IF path = << >> THEN <<"/">> ELSE EscapeSpace(path),
              search |-> IF Len(query) <= 1 THEN << >> ELSE EscapeSpace(query)]
        ELSE [valid |-> FALSE, protocol |-> "", host |-> "",
              pathname |-> << >>, search |-> << >>]

\* GitHttpClient.PROXY_URL and GitHttpClient.request: the URL a request of
\* isomorphic-git for config.url is sent to
PROXY_URL == <<"http://", "localhost:3001", "/", "proxy", "?", "url", "=">>
ProxiedUrl(configUrl) == PROXY_URL \o EncodeURIComponent(configUrl)

\* Buffer.from(text).toString('base64'), and the Basic scheme
Base64(text) == "b64(" \o text \o ")"
Basic(username, password) == "Basic " \o Base64(username \o ":" \o password)

\* a header value JavaScript takes as true: present and not empty
Truthy(h) == h # Absent /\ h # ""

\* ------------------------------------------------------- requests of the engine
\* what follows the repository URL in the URLs isomorphic-git requests
UrlChars == {"/", "p", "?", "=", "&", "#", "+"}
Tails ==
    {<< >>} \cup
    UNION {{<<"/">> \o t : t \in [1..n -> UrlChars]} : n \in 0..(MaxUrl - 1)}

\* initializeRepo and testConnection of the simple-git build:
\* repoUrl.replace('https://', `https://${username}:${password}@`)
RemoteWithAuth(repoUrl, cr) ==
    IF Len(repoUrl) > 0 /\ repoUrl[1] = "https://"
    THEN <<"https://", UserInfo(cr.username, cr.password)>> \o Tail(repoUrl)
    ELSE repoUrl

\* Neither the engine's requests nor the proxy keep anything from one request
\* to the next: a behaviour follows one request.
CanSend == wire.from = "none"

\* GitHttpClient.request, called by isomorphic-git for clone and push: the
\* request goes to the proxy, the credentials in the X-Git headers; the
\* headers of isomorphic-git (Authorization, once onAuth was asked) are kept
ClientRequest(op, tail, withAuth) ==
    LET cr == CredentialsOf(settings)
        configUrl == UrlPieces(settings.repoUrl) \o tail
    IN  /\ variant = "isomorphic"
        /\ CanSend
        /\ wire' = [from |-> "engine", op |-> op, via |-> "proxy",
                    upstream |-> configUrl, url |-> ProxiedUrl(configUrl),
                    headers |->
                        [username |-> cr.username, password |-> cr.password,
                         authorization |->
                             IF withAuth THEN Basic(cr.username, cr.password)
                             ELSE Absent],
                    handled |-> FALSE]
        /\ engineLog' = {[text |-> "Proxying request to", values |-> configUrl]}
        /\ proxyOut' = NoProxyOut
        /\ proxyLog' = {}
        /\ UNCHANGED <<variant, settings, statusBarItem, statusVars, repoVars, pluginVars,
                       statusBar, callVars, histVars>>

\* pull of the isomorphic-git build: isomorphic-git's own http client sends
\* the request to the remote itself, the credentials of onAuth in the
\* Authorization header
DirectRequest(tail, withAuth) ==
    LET cr == CredentialsOf(settings)
        configUrl == UrlPieces(settings.repoUrl) \o tail
    IN  /\ variant = "isomorphic"
        /\ CanSend
        /\ wire' = [from |-> "engine", op |-> "pull", via |-> "direct",
                    upstream |-> configUrl, url |-> configUrl,
                    headers |->
                        [NoHeaders EXCEPT !.authorization =
                             IF withAuth THEN Basic(cr.username, cr.password)
                             ELSE Absent],
                    handled |-> FALSE]
        /\ engineLog' = {}
        /\ proxyOut' = NoProxyOut
        /\ proxyLog' = {}
        /\ UNCHANGED <<variant, settings, statusBarItem, statusVars, repoVars, pluginVars,
                       statusBar, callVars, histVars>>

\* the simple-git build: clone and listRemote (testConnection) are given
\* remoteWithAuth; pull and push name 'origin', whose URL is the one the
\* clone stored
GitCommand(op) ==
    LET cr == CredentialsOf(settings)
        repoUrl == UrlPieces(settings.repoUrl)
        remoteWithAuth == RemoteWithAuth(repoUrl, cr)
    IN  /\ variant = "simple"
        /\ CanSend
        /\ wire' = [from |-> "engine", op |-> op, via |-> "git",
                    upstream |-> repoUrl, url |-> remoteWithAuth,
                    headers |-> NoHeaders, handled |-> FALSE]
        /\ engineLog' =
               CASE op = "clone" ->
                        {[text |-> "Cloning repository from", values |-> repoUrl]}
                 [] op = "listRemote" ->
                        {[text |-> "Testing remote connection to",
                          values |-> remoteWithAuth],
                         [text |-> "Connection successful",
                          values |-> remoteWithAuth]}
                 [] OTHER -> {}
        /\ proxyOut' = NoProxyOut
        /\ proxyLog' = {}
        /\ UNCHANGED <<variant, settings, statusBarItem, statusVars, repoVars, pluginVars,
                       statusBar, callVars, histVars>>

\* ---------------------------------------------------------------- the proxy
\* requests other clients send to /proxy: no url parameter, a url parameter
\* that is no URL, an upstream URL written into the query as it is, or
\* escaped; each X-Git header missing, empty or set; with or without an
\* Authorization header of the client
ForeignQueries ==
    {<< >>, <<"p", "=", "p">>}
    \cup {<<"url", "=">> \o v : v \in {<< >>, <<"p">>, <<"host", "/", "p">>}}
    \cup {<<"url", "=">> \o <<"https://", "host">> \o t : t \in Tails}
    \cup {<<"url", "=">> \o EncodeURIComponent(<<"https://", "host">> \o t) :
              t \in Tails}

ForeignHeaders ==
    [username : {Absent, "", "ann"}, password : {Absent, "", "s3cret"},
     authorization : {Absent, "Bearer t0ken"}]

ForeignRequest(q, h) ==
    /\ CanSend
    /\ wire' = [from |-> "foreign", op |-> "none", via |-> "proxy",
                upstream |-> << >>,
                url |-> <<"http://", "localhost:3001", "/", "proxy">> \o
                        (IF q = << >> THEN << >> ELSE <<"?">> \o q),
                headers |-> h, handled |-> FALSE]
    /\ engineLog' = {}
    /\ proxyOut' = NoProxyOut
    /\ proxyLog' = {}
    /\ UNCHANGED <<variant, settings, statusBarItem, statusVars, repoVars, pluginVars,
                   statusBar, callVars, histVars>>

\* what the upstream host answers, "unreachable" when it does not
Responses == {"200", "401", "unreachable"}

\* router: the target of the request
RouterTarget(req) ==
    LET targetUrl == ParseURL(QueryUrl(req.url).value)
    IN  <<targetUrl.protocol, targetUrl.host>>

\* pathRewrite: the path of the forwarded request
PathRewrite(req) ==
    LET targetUrl == ParseURL(QueryUrl(req.url).value)
    IN  targetUrl.pathname \o targetUrl.search

\* new URL(req.query.url) throws in router: the url parameter is missing or
\* is no absolute URL
RouterThrows(req) ==
    ~QueryUrl(req.url).defined \/ ~ParseURL(QueryUrl(req.url).value).valid

\* onProxyReq: the headers of the forwarded request.  The proxy library
\* copies every header of the inbound request; Authorization is set when
\* both X-Git headers are truthy.
OnProxyReqHeaders(req) ==
    IF Truthy(req.headers.username) /\ Truthy(req.headers.password)
    THEN [req.headers EXCEPT
              !.authorization = Basic(req.headers.username, req.headers.password)]
    ELSE req.headers

\* onProxyReq: the headers it logs, authorization replaced when truthy
LoggedHeaders(headers) ==
    [headers EXCEPT !.authorization = IF Truthy(@) THEN "[REDACTED]" ELSE @]

\* the lines logged for a request that is forwarded: router, pathRewrite,
\* onProxyReq
ForwardLog(req) ==
    LET out == LoggedHeaders(OnProxyReqHeaders(req))
    IN  {[text |-> "Routing to target", values |-> RouterTarget(req)],
         [text |-> "Rewriting path", values |-> PathRewrite(req)],
         [text |-> "Proxying request to", values |-> QueryUrl(req.url).value],
         [text |-> IF Truthy(req.headers.username) /\ Truthy(req.headers.password)
                   THEN "Added Basic Auth header"
                   ELSE "No authentication credentials provided",
          values |-> << >>],
         [text |-> "Request headers",
          values |-> SelectSeq(<<out.username, out.password, out.authorization>>,
                               LAMBDA x : x # Absent)]}

\* morgan: ':method :url :status', the URL as it was received
AccessLog(req, status) ==
    [text |-> "access " \o status, values |-> Before(req.url, {"#"})]

\* The proxy handles the request on the wire.  A throw of router ends in
\* express's error handler, which answers 500; else the request is
\* forwarded and the response relayed, or onError answers 500 when the
\* target cannot be reached.
ProxyHandle(resp) ==
    /\ wire.via = "proxy"
    /\ ~wire.handled
    /\ wire' = [wire EXCEPT !.handled = TRUE]
    /\ IF RouterThrows(wire)
       THEN /\ proxyOut' = [NoProxyOut EXCEPT !.status = 500, !.body = "error"]
            /\ proxyLog' = {AccessLog(wire, "500")}
       ELSE /\ proxyOut' =
                   [received |-> resp,
                    status |-> CASE resp = "200" -> 200 [] resp = "401" -> 401
                                 [] OTHER -> 500,
                    forwarded |-> TRUE,
                    target |-> RouterTarget(wire),
                    path |-> PathRewrite(wire),
                    headers |-> OnProxyReqHeaders(wire),
                    body |-> IF resp = "unreachable" THEN "Proxy error"
                             ELSE "upstream " \o resp]
            /\ proxyLog' =
                   ForwardLog(wire) \cup
                   (IF resp = "unreachable"
                    THEN {[text |-> "Proxy error", values |-> << >>],
                          AccessLog(wire, "500")}
                    ELSE {[text |-> "Received response", values |-> <<resp>>],
                          AccessLog(wire, resp)})
    /\ UNCHANGED <<engineLog, variant, settings, statusBarItem, statusVars, repoVars,
                   pluginVars, statusBar, callVars, histVars>>

\* the engine and the proxy, for any credentials the settings hold
NetSettings ==
    {[SavedSettings EXCEPT !.username = u, !.password = pw] :
        u \in {"", "ann"}, pw \in {"", "s3cret"}}

InitProxy ==
    /\ variant \in {"isomorphic", "simple"}
    /\ settings \in NetSettings
    /\ statusBarItem = "set"
    /\ InitRest

NextProxy ==
    \/ /\ CanSend
       /\ \E op \in {"clone", "push"}, t \in Tails, a \in BOOLEAN :
              ClientRequest(op, t, a)
    \/ /\ CanSend
       /\ \E t \in Tails, a \in BOOLEAN : DirectRequest(t, a)
    \/ \E op \in {"clone", "listRemote", "pull", "push"} : GitCommand(op)
    \/ /\ CanSend
       /\ \E q \in ForeignQueries, h \in ForeignHeaders : ForeignRequest(q, h)
    \/ \E r \in Responses : ProxyHandle(r)

SpecProxy == InitProxy /\ [][NextProxy]_vars

\* ================================================================ getStatus
\* commits reachable from h
Reachable(h) == {i \in 1..Len(commits) : h # 0 /\ IsAncestor(i, h)}

\* A ref argument is the sequence of its pieces.  isomorphic-git resolves
\* it as the name of a reference: a branch to refs/heads, origin/<branch> to
\* refs/remotes; any other text, "a..b" included, names no reference.
OriginOf(branch) == "origin/" \o branch

ResolveRef(ref) ==
    IF ref = <<currentBranch>> /\ currentBranch # "" THEN localHead
    ELSE IF currentBranch # "" /\ ref = <<OriginOf(currentBranch)>> THEN originRef
    ELSE 0

\* git.log({ref}): the commits reachable from the commit ref names, rejected
\* when ref names none
GitLog(ref) ==
    [ok |-> ResolveRef(ref) # 0, commits |-> Reachable(ResolveRef(ref))]

\* mutant: the count of git.log without the catch
LogCountUncaught(ref) ==
    [ok |-> GitLog(ref).ok, n |-> Cardinality(GitLog(ref).commits)]

\* git.log(...).then(commits => commits.length).catch(() => 0)
LogCount(ref) ==
    [ok |-> TRUE,
     n |-> IF GitLog(ref).ok THEN Cardinality(GitLog(ref).commits) ELSE 0]

\* GitManager.getStatus
GetStatus ==
    LET ahead == LogCount(<<currentBranch, "..", OriginOf(currentBranch)>>)
        behind == LogCount(<<OriginOf(currentBranch), "..", currentBranch>>)
    IN  /\ isRepo
        /\ gitManager = "created"
        /\ ~gitStatus.called
        /\ gitStatus' =
               IF currentBranch = "" \/ ~ahead.ok \/ ~behind.ok
               THEN [NoStatus EXCEPT !.called = TRUE]
               ELSE [called |-> TRUE, ok |-> TRUE, branch |-> currentBranch,
                     ahead |-> ahead.n, behind |-> behind.n]
        /\ UNCHANGED <<variant, settings, statusBarItem, netVars, currentBranch,
                       originRef, repoVars, pluginVars, statusBar, callVars,
                       histVars>>

\* histories of up to MaxHistory commits, each commit but the first with an
\* earlier commit as its parent
Histories ==
    UNION {{[i \in 1..n |-> [FirstCommit EXCEPT !.parent = par[i]]] :
                par \in {f \in [1..n -> 0..(n - 1)] :
                            f[1] = 0 /\ \A i \in 2..n : f[i] \in 1..(i - 1)}} :
           n \in 1..MaxHistory}

\* a repository of the isomorphic-git build with any such history, the local
\* branch and origin/<branch> at any commit of it, origin/<branch> possibly
\* missing, HEAD on the branch or detached
InitStatus ==
    /\ variant = "isomorphic"
    /\ settings = SavedSettings
    /\ statusBarItem = "set"
    /\ InitCalls
    /\ commits \in Histories
    /\ localHead \in 1..Len(commits)
    /\ originRef \in 0..Len(commits)
    /\ currentBranch \in {"main", ""}
    /\ gitStatus = NoStatus
    /\ isRepo = TRUE
    /\ remoteHead = 1
    /\ index = TreeOf(localHead)
    /\ work = TreeOf(localHead)
    /\ unmerged = {}
    /\ mergeHead = 0
    /\ gitConfig = [set |-> FALSE, name |-> "", email |-> "",
                    remoteUrl |-> settings.repoUrl,
                    branch |-> settings.branchName]
    /\ gitManager = "created"
    /\ credentials = CredentialsOf(settings)
    /\ statusBar = "Git: Ready"
    /\ prev = "none"
    /\ lastEnded = "none"

NextStatus == GetStatus

SpecStatus == InitStatus /\ [][NextStatus]_vars

\* ===================================================================== claims
StepSet(c) == {steps[c][i] : i \in 1..Len(steps[c])}

Ended_(c) == pc[c] \in {"done", "failed"}

\* the call's ChangeSet is known: getChangedFiles of sync resolved
\* (isomorphic-git build), git add '.' ran (simple-git build)
ChangeSetComputed(c) ==
    IF variant = "isomorphic"
    THEN "diff" \in StepSet(c) /\ pc[c] # "getChangedFiles" /\ failedAt[c] # "diff"
    ELSE "stage" \in StepSet(c) /\ pc[c] # "addAll" /\ failedAt[c] # "stage"

\* C1: a sync call whose ChangeSet, computed after the pull step, is empty
\* performs no stage, commit or push operation, creates no commit and ends
\* with the NoChanges outcome.
C1_EmptyChangeSetIsNoChanges ==
    \A c \in Calls :
        (ChangeSetComputed(c) /\ changedFiles[c] = {}) =>
            /\ StepSet(c) \cap {"stage", "commit", "push"} = {}
            /\ madeCommit[c] = 0
            /\ pc[c] = "done"
            /\ outcome[c] = "NoChanges"

\* C2: two sync calls in flight at the same time never interleave their
\* staging operations: while one call is inside its stage step the other one
\* is not.
C2_StagingNeverInterleaves ==
    \A a, b \in Calls :
        (a # b /\ pc[a] \in {"addAll", "add"}) => pc[b] \notin {"addAll", "add"}

\* C3: an auto-sync timer tick that fires while another sync is in flight is
\* skipped: the call it would start runs no git operation.
C3_TimerTickSkippedWhileBusy ==
    \A c \in Calls :
        (origin[c] = "timer" /\ othersAtStart[c] # {}) => steps[c] = << >>

\* the steps of a sync call in the order the specification gives them
Pipeline == <<"initialize", "pull", "diff", "stage", "commit", "push">>

IsPrefix(s, t) == Len(s) <= Len(t) /\ \A i \in 1..Len(s) : s[i] = t[i]

\* C4: the steps a sync call has executed form a prefix of initialize, pull,
\* diff, stage, commit, push; a step that fails is the last one of its call
\* and ends it with a failure; push runs only after the call's own commit
\* succeeded; a commit once created stays in the local history.
C4_StepsFormPrefix ==
    \A c \in Calls :
        /\ IsPrefix(steps[c], Pipeline)
        /\ (pc[c] = "failed") <=> (failedAt[c] # "none")
        /\ failedAt[c] # "none" => (failedAt[c] = StepOf(c) /\ outcome[c] = "Failed")
        /\ "push" \in StepSet(c) => madeCommit[c] # 0
        /\ madeCommit[c] # 0 => IsAncestor(madeCommit[c], localHead)

\* a call committed, failed at push, and its commit is still the local tip
C4_Witness ==
    \E c \in Calls :
        /\ pc[c] = "failed"
        /\ failedAt[c] = "push"
        /\ madeCommit[c] # 0
        /\ localHead = madeCommit[c]

\* C5: after a call that created a commit and failed at push, the next call,
\* made with no intervening local edit, performs the push and creates no new
\* commit.
C5_NextSyncRetriesPush ==
    \A c \in Calls :
        (follows[c] = "pushFailed" /\ pc[c] = "done") =>
            ("push" \in StepSet(c) /\ madeCommit[c] = 0)

\* C6: in every sync call the pull has completed before the ChangeSet is
\* computed, and the ChangeSet is computed before a path is staged; what a
\* pull merged stays merged, so that without local edits the working
\* directory equals the pulled tree (a file deleted upstream is gone) and the
\* ChangeSet is empty.
C6_PullThenDiffThenStage ==
    \A c \in Calls :
        /\ ChangeSetComputed(c) => pulled[c] # 0
        /\ added[c] # {} => ChangeSetComputed(c)
        /\ pulled[c] # 0 => IsAncestor(pulled[c], localHead)
        /\ (nEdits = 0 /\ isRepo) =>
               (work = TreeOf(localHead) /\ index = TreeOf(localHead))
        /\ (nEdits = 0 /\ ChangeSetComputed(c)) => changedFiles[c] = {}

\* the first call pulled commit 1, the second pulled a commit that deletes a
\* file: with no local edit the file is gone and the second call found
\* nothing to commit
C6_Witness ==
    \E p \in Paths :
        /\ MaxCalls >= 2
        /\ pulled[1] = 1
        /\ pulled[2] = 2
        /\ TreeOf(1)[p] # 0
        /\ TreeOf(2)[p] = 0
        /\ work[p] = 0
        /\ nEdits = 0
        /\ pc[2] = "done"
        /\ changedFiles[2] = {}

\* what idempotence promises of a call
FindsNothing(c) ==
    ChangeSetComputed(c) =>
        /\ changedFiles[c] = {}
        /\ madeCommit[c] = 0
        /\ "push" \notin StepSet(c)
        /\ pc[c] = "done"
        /\ outcome[c] = "NoChanges"

C9_FailureLeavesEngineIdle ==
    \A c \in Calls :
        pc[c] = "failed" =>
            /\ c \notin InFlight
            /\ nCalls < MaxCalls => ENABLED ManualSync(nCalls + 1, "ribbon")
            /\ \A d \in Calls :
                   (d > c /\ pc[d] # "idle") => steps[d][1] = "initialize"

\* a call started after a failed one ran the whole pipeline
C9_Witness ==
    \E c, d \in Calls :
        /\ c < d
        /\ pc[c] = "failed"
        /\ othersAtStart[d] = {}
        /\ pc[d] = "done"
        /\ outcome[d] = "Success"

\* C10: every sync call that has started eventually ends, as a success or as
\* a failure.
C10_EverySyncTerminates ==
    \A c \in Calls : (pc[c] # "idle") ~> Ended_(c)

\* how often step s occurs among the steps of call c
Count(c, s) == Cardinality({i \in 1..Len(steps[c]) : steps[c][i] = s})

\* C11: a call whose push the remote rejected as non-fast-forward has failed
\* at push with that rejection; a call attempts push (and pull) at most once;
\* the remote branch only ever moves forward, so nothing is pushed with force.
C11_RejectedPushFailsOnce ==
    /\ [](\A c \in Calls :
            /\ Count(c, "push") <= 1
            /\ Count(c, "pull") <= 1
            /\ error[c] = "PushRejected" =>
                   /\ pc[c] = "failed"
                   /\ failedAt[c] = "push"
                   /\ outcome[c] = "Failed"
                   /\ StepOf(c) = "push")
    /\ [][\E old \in {remoteHead} : IsAncestor(old, remoteHead)']_vars

\* a call committed, the remote had advanced meanwhile and rejected the push;
\* the remote tip is still the other client's commit
C11_Witness ==
    \E c \in Calls :
        /\ error[c] = "PushRejected"
        /\ madeCommit[c] # 0
        /\ localHead = madeCommit[c]
        /\ ~IsAncestor(remoteHead, localHead)
        /\ remoteHead # 1

\* C12: a call whose pull hit a merge conflict has failed at its pull step,
\* and no commit records a file that a conflicting pull left partially merged
\* (with conflict markers).
C12_NoCommitOverConflict ==
    /\ \A c \in Calls :
           error[c] = "MergeConflict" => (pc[c] = "failed" /\ failedAt[c] = "pull")
    /\ \A h \in 1..Len(commits) : \A p \in Paths : commits[h].tree[p] # Conflicted

\* the pieces of a message
Pieces(m) == {m[i] : i \in 1..Len(m)}

\* C13: the commit message syncVault passes to sync holds no {{date}}
\* placeholder, whatever the template; a template without the placeholder is
\* passed unchanged; the commit a call creates records that message.
C13_NoPlaceholderLeft ==
    \A c \in Calls :
        pc[c] # "idle" =>
            /\ Placeholder \notin Pieces(commitMessage[c])
            /\ Placeholder \notin Pieces(settings.autoCommitMessage) =>
                   commitMessage[c] = settings.autoCommitMessage
            /\ madeCommit[c] # 0 =>
                   commits[madeCommit[c]].message = commitMessage[c]

\* the placeholder identity the specification names
SyncBot == [name |-> "Sync Bot", email |-> "sync@local"]

\* C14: a commit created by a sync call records the identity Sync Bot
\* <sync@local> when the configured author name and email are both empty, and
\* exactly the configured name and email when both are set.
C14_AuthorOrPlaceholder ==
    \A c \in Calls :
        madeCommit[c] # 0 =>
            LET a == commits[madeCommit[c]].author IN
            /\ (settings.authorName = "" /\ settings.authorEmail = "") => a = SyncBot
            /\ (settings.authorName # "" /\ settings.authorEmail # "") =>
                   a = [name |-> settings.authorName, email |-> settings.authorEmail]

ShowsSecret(pw) ==
    IF pw \in {"", Absent} THEN {}
    ELSE {pw} \cup {UserInfo(u, pw) : u \in {"", "ann"}}
              \cup {EncodeChar(UserInfo(u, pw)) : u \in {"", "ann"}}
              \cup {Basic(u, pw) : u \in {"", "ann"}}
              \cup {Base64(u \o ":" \o pw) : u \in {"", "ann"}}

\* pieces of a URL that show the user name u
ShowsUsername(u) ==
    IF u \in {"", Absent} THEN {}
    ELSE {u} \cup {UserInfo(u, pw) : pw \in {"", "s3cret"}}
             \cup {EncodeChar(UserInfo(u, pw)) : pw \in {"", "s3cret"}}

Pieces_(u) == {u[i] : i \in 1..Len(u)}

\* C15: no line the proxy or the engine logs for a request shows the password
\* of the settings or of the request's X-Git-Password header, nor the Basic
\* authorization value made from it.
C15_SecretsNeverLogged ==
    \A line \in proxyLog \cup engineLog :
        Pieces_(line.values) \cap
            (ShowsSecret(settings.password) \cup
             ShowsSecret(wire.headers.password)) = {}

\* C16: the URL of a request or git command the engine sends shows neither
\* the user name nor the password of the settings.
C16_NoCredentialsInUrl ==
    wire.from = "engine" =>
        Pieces_(wire.url) \cap
            (ShowsUsername(settings.username) \cup
             ShowsSecret(settings.password)) = {}

\* C17: once the proxy has handled a request whose url parameter is missing
\* or is no URL, the answer has status 400 and nothing was forwarded.
C17_BadUrlRejectedWith400 ==
    (wire.via = "proxy" /\ wire.handled /\ RouterThrows(wire)) =>
        proxyOut.status = 400 /\ ~proxyOut.forwarded

\* C18: a request GitHttpClient built for the upstream URL U is forwarded to
\* U's scheme and host with U's path and query, and the status and body of
\* the upstream's answer are the ones the client gets.
C18_ProxyRoundTrip ==
    (wire.from = "engine" /\ wire.via = "proxy" /\ wire.handled) =>
        LET u == ParseURL(wire.upstream)
        IN  /\ proxyOut.forwarded
            /\ proxyOut.target = <<u.protocol, u.host>>
            /\ proxyOut.path = u.pathname \o u.search
            /\ "proxy" \notin Pieces_(proxyOut.path)
            /\ proxyOut.received = "200" =>
                   proxyOut.status = 200 /\ proxyOut.body = "upstream 200"
            /\ proxyOut.received = "401" =>
                   proxyOut.status = 401 /\ proxyOut.body = "upstream 401"

\* C18 witness: a request for an upstream URL whose query holds "&" and "="
\* was forwarded with that query and answered by the upstream
C18_Witness ==
    /\ wire.from = "engine" /\ wire.via = "proxy" /\ wire.handled
    /\ wire.upstream = <<"https://", "host", "/", "repo.git", "/", "?", "&">>
    /\ proxyOut.path = <<"/", "repo.git", "/", "?", "&">>
    /\ proxyOut.status = 401

\* C19: the request the proxy forwards carries Authorization: Basic
\* base64(username:password) when the inbound request has both X-Git headers,
\* and no Authorization header when it lacks one of them.
C19_BasicAuthIffBothHeaders ==
    (wire.via = "proxy" /\ wire.handled /\ proxyOut.forwarded) =>
        IF wire.headers.username # Absent /\ wire.headers.password # Absent
        THEN proxyOut.headers.authorization =
                 Basic(wire.headers.username, wire.headers.password)
        ELSE proxyOut.headers.authorization = Absent

\* the errors a git step or syncVault rejects with
ErrorKinds ==
    {"CloneFailed", "PullFailed", "NotFound", "FileSystem", "PushRejected",
     "PushFailed", "MergeConflict", "StatusBarItemNotInitialized"}

C22_AheadBehindCounts ==
    (gitStatus.called /\ gitStatus.ok /\ originRef # 0) =>
        /\ gitStatus.ahead =
               Cardinality(Reachable(localHead) \ Reachable(originRef))
        /\ gitStatus.behind =
               Cardinality(Reachable(originRef) \ Reachable(localHead))

\* C23: getStatus on a repository fails exactly when HEAD is on no branch;
\* with origin/<branch> missing it returns the current branch, ahead 0 and
\* behind 0.
C23_MissingRemoteRefGivesZero ==
    gitStatus.called =>
        /\ gitStatus.ok <=> currentBranch # ""
        /\ (gitStatus.ok /\ originRef = 0) =>
               /\ gitStatus.branch = currentBranch
               /\ gitStatus.ahead = 0
               /\ gitStatus.behind = 0

\* C23 witness: getStatus returned for a branch with two commits whose
\* origin/<branch> does not exist
C23_Witness ==
    /\ gitStatus.called /\ gitStatus.ok
    /\ originRef = 0
    /\ Cardinality(Reachable(localHead)) = 2
    /\ gitStatus.branch = "main" /\ gitStatus.ahead = 0 /\ gitStatus.behind = 0

\* C24: a call that pulls or pushes on a repository targets the remote URL and
\* the branch the repository was cloned with.
C24_HandleKeepsRemoteAndBranch ==
    \A c \in Calls :
        (isRepo /\ {"pull", "push"} \cap StepSet(c) # {}) =>
            /\ PullTarget(c).remoteUrl = gitConfig.remoteUrl
            /\ PullTarget(c).branch = gitConfig.branch

\* C30: while a call is in flight the credentials the engine holds are the
\* ones of the settings at the moment the call started.
C30_CredentialsOfCallStart ==
    \A c \in InFlight :
        gitManager = "created" => credentials = CredentialsOf(startSettings[c])

\* the operations that contact the remote
NetworkOps == {"clone", "pull", "push"}

\* C25: once the plugin is unloaded no call begins a clone, pull or push.
C25_NoNetworkAfterUnload ==
    [][unloaded =>
           \A c \in Calls : pc'[c] \in NetworkOps => pc'[c] = pc[c]]_vars

\* C28: at most one interval is active, it is the one intervalId holds, and
\* when no saveSettings call is pending and the plugin is loaded an interval
\* is active exactly when autoSyncInterval > 0, with a period of
\* autoSyncInterval minutes.
C28_OneTimerMatchingSettings ==
    /\ Cardinality(timers) <= 1
    /\ \A t \in timers : t.id = intervalId
    /\ (savesPending = 0 /\ ~unloaded) =>
           /\ timers # {} <=> autoSyncInterval > 0
           /\ \A t \in timers : t.ms = autoSyncInterval * 60 * 1000

\* C28 witness: the interval setting was changed from 1 to 2 minutes and
\* saved: the one interval active is a new one of 2 minutes
C28_Witness ==
    /\ nSettings = 1 /\ savesPending = 0 /\ ~unloaded
    /\ autoSyncInterval = 2
    /\ timers = {[id |-> 2, ms |-> 120000]}

\* C29: after onunload no interval is active.
C29_NoTimerAfterUnload == unloaded => timers = {}

\* C26: every clone, pull or push a call awaits was issued through
\* GitHttpClient.
C26_OneTransport ==
    \A c \in Calls : pc[c] \in NetworkOps => Transport(pc[c]) = "GitHttpClient"

\* the text updateStatus shows when the step awaiting operation op begins
StartText(op) ==
    CASE op = "pull" -> "Git: Pulling changes..."
      [] op = "addAll" -> "Git: Adding changes..."
      [] op = "commit" -> "Git: Committing changes..."
      [] op = "push" -> "Git: Pushing changes..."

\* C27: while the first sync call awaits the pull, addAll, commit or push it
\* has just started, the status bar shows that step; when no sync call is in
\* flight the status bar shows "Git: Ready" if the sync that ended last
\* succeeded and "Git: Sync failed" if it failed.
C27_FinalStatusOfLastSync ==
    /\ \A c \in Calls :
           (nCalls = 1 /\ pc[c] \in {"pull", "addAll", "commit", "push"}) =>
               statusBar = StartText(pc[c])
    /\ (InFlight = {} /\ lastEnded = "ok") => statusBar = "Git: Ready"
    /\ (InFlight = {} /\ lastEnded = "failed") => statusBar = "Git: Sync failed"
====
